---- MODULE Spec2Model ----
(***************************************************************************)
(* Model of src/server.js: an Express service in front of the Stripe API.  *)
(* The file carries two variants of the server (lines 1-275 and 354-494);  *)
(* the variable `variant` says which one is deployed.  One request at a    *)
(* time walks the middleware chain (cors -> logger -> body parser ->       *)
(* route handler -> error handler); `prev` keeps the previous exchange so  *)
(* that two responses can be compared.                                     *)
(***************************************************************************)
EXTENDS Integers, Sequences, FiniteSets, TLC

\* Longest amount string a client sends (characters).
MaxLen == 2

(***************************************************************************)
(* JSON values of a request body.  Strings are sequences of characters.    *)
(***************************************************************************)
Undef == [t |-> "undef", n |-> 0, s |-> <<>>]

Null == [t |-> "null", n |-> 0, s |-> <<>>]

Num(n) == [t |-> "num", n |-> n, s |-> <<>>]

Str(s) == [t |-> "str", n |-> 0, s |-> s]

\* JavaScript truthiness of a body field, as tested by !req.body[field].
Truthy(v) ==
    CASE v.t = "undef" -> FALSE
      [] v.t = "null" -> FALSE
      [] v.t = "num" -> v.n # 0
      [] OTHER -> v.s # <<>>

Digits == {"0", "1", "2", "3", "4", "5", "6", "7", "8", "9"}

DigitVal(c) ==
    CASE c = "0" -> 0 [] c = "1" -> 1 [] c = "2" -> 2 [] c = "3" -> 3
      [] c = "4" -> 4 [] c = "5" -> 5 [] c = "6" -> 6 [] c = "7" -> 7
      [] c = "8" -> 8 [] OTHER -> 9

IsSpace(c) == c = " "

RECURSIVE TrimStart(_)
TrimStart(s) ==
    IF s # <<>> /\ IsSpace(Head(s)) THEN TrimStart(Tail(s)) ELSE s

\* The digits parseInt consumes: the longest prefix of decimal digits.
RECURSIVE DigitPrefix(_)
DigitPrefix(s) ==
    IF s # <<>> /\ Head(s) \in Digits
    THEN <<Head(s)>> \o DigitPrefix(Tail(s))
    ELSE <<>>

RECURSIVE DigitsValue(_, _)
DigitsValue(s, acc) ==
    IF s = <<>> THEN acc ELSE DigitsValue(Tail(s), acc * 10 + DigitVal(Head(s)))

NaN == [nan |-> TRUE, n |-> 0]

\* parseInt(string): leading white space, optional sign, digit prefix.
ParseIntStr(s) ==
    LET t == TrimStart(s)
        neg == t # <<>> /\ Head(t) = "-"
        signed == t # <<>> /\ Head(t) \in {"-", "+"}
        rest == IF signed THEN Tail(t) ELSE t
        ds == DigitPrefix(rest)
    IN  IF ds = <<>> THEN NaN
        ELSE [nan |-> FALSE,
              n |-> IF neg THEN 0 - DigitsValue(ds, 0) ELSE DigitsValue(ds, 0)]

\* parseInt(req.body.amount)
ParseInt(v) ==
    CASE v.t = "num" -> [nan |-> FALSE, n |-> v.n]
      [] v.t = "str" -> ParseIntStr(v.s)
      [] OTHER -> NaN

\* String.prototype.toLowerCase, character by character.
LowerChar(c) ==
    CASE c = "U" -> "u" [] c = "S" -> "s" [] c = "D" -> "d"
      [] c = "E" -> "e" [] c = "R" -> "r" [] c = "G" -> "g"
      [] c = "B" -> "b" [] c = "P" -> "p" [] c = "M" -> "m"
      [] c = "X" -> "x" [] c = "N" -> "n" [] OTHER -> c

ToLowerCase(s) == [i \in 1..Len(s) |-> LowerChar(s[i])]

validCurrencies ==
    {<<"u", "s", "d">>, <<"e", "u", "r">>, <<"g", "b", "p">>, <<"m", "x", "n">>}

\* /^[^\s@]+@[^\s@]+\.[^\s@]+$/ : three non-empty runs free of white space
\* and '@', separated by one '@' and (after it) one '.'.
Plain(s, a, b) == \A i \in a..b : ~IsSpace(s[i]) /\ s[i] # "@"

emailRegexTest(v) ==
    /\ v.t = "str"
    /\ \E p \in 1..Len(v.s), q \in 1..Len(v.s) :
          /\ 1 < p /\ p + 1 < q /\ q < Len(v.s)
          /\ v.s[p] = "@" /\ v.s[q] = "."
          /\ Plain(v.s, 1, p - 1)
          /\ Plain(v.s, p + 1, q - 1)
          /\ Plain(v.s, q + 1, Len(v.s))

(***************************************************************************)
(* Requests.  originalUrl is the pair <<path, query>>.                     *)
(***************************************************************************)
RECURSIVE StringsUpTo(_, _)
StringsUpTo(chars, k) ==
    IF k = 0 THEN {<<>>}
    ELSE LET shorter == StringsUpTo(chars, k - 1)
         IN  shorter \cup {Append(s, c) : s \in shorter, c \in chars}

AmountChars == {"0", "1", "a", ".", "-", " "}

Amounts ==
    {Undef, Null, Num(0 - 1), Num(0), Num(2)}
        \cup {Str(s) : s \in StringsUpTo(AmountChars, MaxLen)}

usd == <<"u", "s", "d">>

Currencies ==
    {Undef, Str(<<>>), Str(usd), Str(<<"U", "S", "D">>), Str(<<"x", "y", "z">>), Num(5)}

goodEmail == <<"a", "@", "b", ".", "c">>

Emails ==
    {Undef, Str(goodEmail), Str(<<"a", "@", "b">>), Str(<<"a", " ", "@", "b", ".", "c">>),
     Str(<<"a", "@", "@", "b", ".", "c">>), Num(7)}

EventTypes ==
    {"payment_intent.succeeded", "payment_intent.payment_failed",
     "payment_intent.created", "charge.refunded", "-"}

DataShapes == {"nodata", "nullobject", "object"}

NoPayload ==
    [kind |-> "none", perr |-> "-", amount |-> Undef, currency |-> Undef,
     email |-> Undef, opts |-> FALSE, type |-> "-", data |-> "nodata"]

\* Bytes that are not JSON, or not a JSON object: perr is the parser's message.
BadPayloads ==
    {[NoPayload EXCEPT !.kind = "notjson", !.perr = m] : m \in {"m1", "m2"}}
        \cup {[NoPayload EXCEPT !.kind = "null", !.perr = "m_null"]}

CpiPayload(a, c, e, o) ==
    [NoPayload EXCEPT !.kind = "object", !.amount = a, !.currency = c,
                      !.email = e, !.opts = o]

CpiPayloads ==
    {CpiPayload(a, Str(usd), Str(goodEmail), FALSE) : a \in Amounts}
    \cup {CpiPayload(a, c, e, FALSE) :
            a \in {Undef, Num(0), Num(2), Str(<<"1">>)}, c \in Currencies, e \in Emails}
    \cup {CpiPayload(a, Str(<<"U", "S", "D">>), Str(goodEmail), TRUE) :
            a \in {Num(2), Str(<<"1", "a">>), Str(<<"-", "1">>)}}

EventPayloads ==
    {[NoPayload EXCEPT !.kind = "object", !.type = ty, !.data = d] :
        ty \in EventTypes, d \in DataShapes}

Origins ==
    {"", "https://refereence.io", "http://localhost:5173", "https://evil.example"}

Signatures == {"absent", "malformed", "mismatch", "valid"}

Req(m, p, q, o, ct, sg, pl) ==
    [method |-> m, path |-> p, query |-> q, origin |-> o, ctype |-> ct,
     sig |-> sg, payload |-> pl]

Requests ==
    {Req("POST", "/create-payment-intent", "", "", "application/json", "absent", pl) :
        pl \in CpiPayloads \cup BadPayloads}
    \cup {Req("POST", "/create-payment-intent", "", o, ct, "absent",
              CpiPayload(Num(2), Str(usd), Str(goodEmail), FALSE)) :
            o \in Origins, ct \in {"application/json", "text/plain"}}
    \cup {Req("POST", "/webhook", q, "", "application/json", sg, pl) :
            q \in {"", "x=1"}, sg \in Signatures, pl \in EventPayloads \cup BadPayloads}
    \cup {Req("POST", "/webhook", q, o, ct, "valid",
              [NoPayload EXCEPT !.kind = "object", !.type = "payment_intent.created",
                                !.data = "object"]) :
            q \in {"", "x=1"}, o \in Origins, ct \in {"application/json", "text/plain"}}
    \cup {Req(m, p, "", o, "-", "absent", NoPayload) :
            m \in {"GET", "OPTIONS"},
            p \in {"/", "/stripe-key", "/health", "/webhook", "/create-payment-intent",
                   "/nope"},
            o \in Origins}

NoReq == Req("-", "-", "", "", "-", "absent", NoPayload)

originalUrl(r) == <<r.path, r.query>>

(***************************************************************************)
(* State.                                                                  *)
(***************************************************************************)
VARIABLES
    variant,        \* 1: the server of lines 1-275; 2: the one of lines 354-494
    nodeEnv,        \* process.env.NODE_ENV
    stripePublishableKey,   \* TRUE when STRIPE_PUBLISHABLE_KEY is set
    pc,             \* where the request in flight stands in the chain
    req,            \* the request in flight
    parser,         \* the body parser applied to it: "none", "raw", "json"
    body,           \* req.body: "undefined", "empty" ({}), "buffer", "object"
    handler,        \* the route handler entered, "none" before
    verified,       \* constructEvent returned an event
    branch,         \* the switch branch the webhook handler entered
    calls,          \* the calls made to the processor for this request
    customer,       \* the id customers.create returned
    err,            \* the exception caught or passed to next(err)
    via,            \* what produced the response
    resp,           \* the response sent (status 0: none)
    prev            \* the previous failed exchange: via, err, resp

vars ==
    <<variant, nodeEnv, stripePublishableKey, pc, req, parser, body, handler,
      verified, branch, calls, customer, err, via, resp, prev>>

config == <<variant, nodeEnv, stripePublishableKey>>

NoErr == [type |-> "-", message |-> "-", code |-> "-"]

\* A response; "-" is a field the body does not carry.
NoResp ==
    [status |-> 0, error |-> "-", message |-> "-", code |-> "-", details |-> "-",
     missing |-> <<>>, received |-> <<>>, clientSecret |-> "-", id |-> "-", amount |-> Undef,
     currency |-> Undef]

Json(status, error) == [NoResp EXCEPT !.status = status, !.error = error]

NoPrev == [via |-> "none", err |-> NoErr, resp |-> NoResp]

Init ==
    /\ variant \in {1, 2}
    /\ nodeEnv \in {"development", "production"}
    /\ stripePublishableKey \in BOOLEAN
    /\ pc = "idle"
    /\ req = NoReq
    /\ parser = "none"
    /\ body = "undefined"
    /\ handler = "none"
    /\ verified = FALSE
    /\ branch = "none"
    /\ calls = <<>>
    /\ customer = "-"
    /\ err = NoErr
    /\ via = "none"
    /\ resp = NoResp
    /\ prev = NoPrev

\* A request arrives.
Receive ==
    /\ pc = "idle"
    /\ \E r \in Requests : req' = r
    /\ pc' = "cors"
    /\ UNCHANGED <<config, parser, body, handler, verified, branch, calls,
                   customer, err, via, resp, prev>>

\* res.status(..).json(..) / send: the response goes out, the request ends.
Respond(r, how) ==
    /\ resp' = r
    /\ via' = how
    /\ pc' = "done"

(***************************************************************************)
(* cors                                                                    *)
(***************************************************************************)
allowedOrigins ==
    IF variant = 1
    THEN {"https://refereence.io", "https://stripe-m1l8.onrender.com",
          "https://iodized-delicate-jupiter.glitch.me", "http://localhost:3000",
          "http://localhost:3001", "http://localhost:5173", "http://127.0.0.1:5500"}
    ELSE {"https://refereence.io", "https://stripe-m1l8.onrender.com",
          "http://localhost:3000", "http://localhost:3001"}

\* What the cors middleware does with a request: "error" (next(err)),
\* "preflight" (it answers the OPTIONS request itself) or "next".
\* Given an array of origins (variant 1) it only leaves the CORS headers out
\* for an origin not listed; given a function (variant 2) the function's
\* error is passed on.
CorsDecision(r) ==
    IF variant = 2 /\ r.origin # "" /\ r.origin \notin allowedOrigins THEN "error"
    ELSE IF r.method = "OPTIONS" THEN "preflight"
    ELSE "next"

Cors ==
    /\ pc = "cors"
    /\ LET d == CorsDecision(req)
       IN  CASE d = "error" ->
                    /\ err' = [NoErr EXCEPT !.message = req.origin]
                    /\ pc' = "errhandler"
                    /\ UNCHANGED <<resp, via>>
             [] d = "preflight" ->
                    /\ Respond(Json(204, "-"), "preflight")
                    /\ UNCHANGED err
             [] OTHER ->
                    /\ pc' = "logger"
                    /\ UNCHANGED <<resp, via, err>>
    /\ UNCHANGED <<config, req, parser, body, handler, verified, branch, calls,
                   customer, prev>>

\* The logging middleware: console output only.
Logger ==
    /\ pc = "logger"
    /\ pc' = "bodyparse"
    /\ UNCHANGED <<config, req, parser, body, handler, verified, branch, calls,
                   customer, err, via, resp, prev>>

(***************************************************************************)
(* Body parsing                                                            *)
(***************************************************************************)
\* Which parser the request gets.  Variant 1 compares req.originalUrl with
\* "/webhook"; variant 2 mounts express.raw on the POST /webhook route, ahead
\* of express.json.
ParserFor(r) ==
    IF variant = 1
    THEN IF originalUrl(r) = <<"/webhook", "">> THEN "raw" ELSE "json"
    ELSE IF r.method = "POST" /\ r.path = "/webhook" THEN "raw" ELSE "json"

\* body-parser reads a body only when there is one of the type it is for.
ShouldParse(r) == r.payload.kind # "none" /\ r.ctype = "application/json"

\* express.json is strict: the text must be a JSON object or array.
JsonFails(r) == ShouldParse(r) /\ r.payload.kind # "object"

BodyParse ==
    /\ pc = "bodyparse"
    /\ parser' = ParserFor(req)
    /\ IF ParserFor(req) = "json" /\ JsonFails(req)
       THEN /\ err' = [NoErr EXCEPT !.message = req.payload.perr]
            /\ pc' = "errhandler"
            /\ body' = "empty"
       ELSE /\ body' = IF ~ShouldParse(req) THEN "empty"
                       ELSE IF ParserFor(req) = "raw" THEN "buffer" ELSE "object"
            /\ pc' = "route"
            /\ UNCHANGED err
    /\ UNCHANGED <<config, req, handler, verified, branch, calls, customer, via,
                   resp, prev>>

\* The route a request is dispatched to (the path, without the query).
RouteOf(r) ==
    CASE r.method = "POST" /\ r.path = "/webhook" -> "webhook"
      [] r.method = "POST" /\ r.path = "/create-payment-intent" -> "cpi"
      [] variant = 1 /\ r.method = "GET" /\ r.path = "/" -> "root"
      [] variant = 1 /\ r.method = "GET" /\ r.path = "/stripe-key" -> "stripe-key"
      [] variant = 2 /\ r.method = "GET" /\ r.path = "/health" -> "health"
      [] OTHER -> "notfound"

Route ==
    /\ pc = "route"
    /\ handler' = RouteOf(req)
    /\ pc' = RouteOf(req)
    /\ UNCHANGED <<config, req, parser, body, verified, branch, calls, customer,
                   err, via, resp, prev>>

(***************************************************************************)
(* GET /, GET /stripe-key, GET /health, the 404 handler                    *)
(***************************************************************************)
Root ==
    /\ pc = "root"
    /\ Respond(Json(200, "-"), "handler")
    /\ UNCHANGED <<config, req, parser, body, handler, verified, branch, calls,
                   customer, err, prev>>

StripeKey ==
    /\ pc = "stripe-key"
    /\ IF ~stripePublishableKey
       THEN Respond(Json(500, "Stripe key no configurada"), "handler")
       ELSE Respond(Json(200, "-"), "handler")
    /\ UNCHANGED <<config, req, parser, body, handler, verified, branch, calls,
                   customer, err, prev>>

Health ==
    /\ pc = "health"
    /\ Respond(Json(200, "-"), "handler")
    /\ UNCHANGED <<config, req, parser, body, handler, verified, branch, calls,
                   customer, err, prev>>

\* Variant 1 answers with its own 404 body, variant 2 with Express's.
NotFound ==
    /\ pc = "notfound"
    /\ Respond(Json(404, IF variant = 1 THEN "Ruta no encontrada" ELSE "-"), "notfound")
    /\ UNCHANGED <<config, req, parser, body, handler, verified, branch, calls,
                   customer, err, prev>>

(***************************************************************************)
(* POST /create-payment-intent                                             *)
(***************************************************************************)
required == <<"amount", "currency", "email">>

\* req.body[field]
Field(f) ==
    IF body # "object" THEN Undef
    ELSE CASE f = "amount" -> req.payload.amount
           [] f = "currency" -> req.payload.currency
           [] f = "email" -> req.payload.email
           [] OTHER -> IF req.payload.opts THEN Str(<<"x">>) ELSE Undef

IsMissing(f) == ~Truthy(Field(f))

missing == SelectSeq(required, IsMissing)

IsPresent(f) == Field(f).t # "undef"

\* Object.keys(req.body)
received ==
    SelectSeq(<<"amount", "currency", "email", "name", "request_three_d_secure",
                "payment_method_types">>, IsPresent)

TypeError == [type |-> "-", message |-> "m_typeerror", code |-> "-"]

Pass == [kind |-> "pass", resp |-> NoResp, err |-> NoErr]

Reject(r) == [kind |-> "reject", resp |-> r, err |-> NoErr]

Throw(e) == [kind |-> "throw", resp |-> NoResp, err |-> e]

\* The checks ahead of the processor calls.
Validate ==
    IF variant = 1
    THEN IF missing # <<>>
         THEN Reject([Json(400, "Faltan campos requeridos") EXCEPT
                          !.missing = missing, !.received = received])
         ELSE IF ParseInt(Field("amount")).nan \/ ParseInt(Field("amount")).n <= 0
         THEN Reject(Json(400, "El amount debe ser un numero positivo"))
         ELSE IF Field("currency").t # "str"
         THEN Throw(TypeError)
         ELSE IF ToLowerCase(Field("currency").s) \notin validCurrencies
         THEN Reject(Json(400, "Currency debe ser una de: usd, eur, gbp, mxn"))
         ELSE IF ~emailRegexTest(Field("email"))
         THEN Reject(Json(400, "Email invalido"))
         ELSE Pass
    ELSE IF IsMissing("amount") \/ IsMissing("currency") \/ IsMissing("email")
         THEN Reject([Json(400, "Faltan campos requeridos") EXCEPT
                          !.missing = required])
         ELSE Pass

ErrorTypes ==
    {"StripeCardError", "StripeInvalidRequestError", "StripeAPIError",
     "StripeConnectionError", "StripeAuthenticationError", "StripeRateLimitError"}

\* What a processor call may throw.
StripeErrors ==
    {[type |-> ty, message |-> "m1", code |-> "c1"] : ty \in ErrorTypes}
    \cup {[type |-> ty, message |-> "", code |-> "-"] :
            ty \in {"StripeCardError", "StripeRateLimitError"}}
    \cup {[type |-> "StripeCardError", message |-> "m2", code |-> "c1"]}

CustomerIds == {"cus_A", "cus_B"}

Or(s, default) == IF s \in {"", "-"} THEN default ELSE s

\* The catch block of the handler.
CatchResponse(e) ==
    IF variant = 1
    THEN CASE e.type = "StripeCardError" ->
                [Json(400, "Error de tarjeta") EXCEPT !.message = e.message,
                                                      !.code = e.code]
           [] e.type = "StripeInvalidRequestError" ->
                [Json(400, "Peticion invalida a Stripe") EXCEPT !.message = e.message]
           [] e.type = "StripeAPIError" ->
                [Json(500, "Error de API de Stripe") EXCEPT
                    !.message = "Problema temporal con Stripe"]
           [] e.type = "StripeConnectionError" ->
                [Json(500, "Error de conexion con Stripe") EXCEPT
                    !.message = "No se pudo conectar con Stripe"]
           [] e.type = "StripeAuthenticationError" ->
                [Json(500, "Error de autenticacion con Stripe") EXCEPT
                    !.message = "Credenciales de Stripe invalidas"]
           [] OTHER ->
                [Json(500, "Error interno del servidor") EXCEPT
                    !.message = Or(e.message, "Error desconocido")]
    ELSE [Json(500, Or(e.message, "Error al crear PaymentIntent")) EXCEPT
              !.code = Or(e.code, "server_error")]

Caught(e) ==
    /\ err' = e
    /\ Respond(CatchResponse(e), "catch")

Call(op, name, email, amount, currency, cus) ==
    [op |-> op, name |-> name, email |-> email, amount |-> amount,
     currency |-> currency, customer |-> cus]

customersCreate ==
    Call("customers.create",
         IF Truthy(Field("name")) THEN Field("name") ELSE Str(<<"Cliente no proporcionado">>),
         Field("email"), Undef, Undef, "-")

\* The amount and currency of the payment intent: parsed and lower-cased in
\* variant 1, as received in variant 2.
paymentIntentsCreate(cus) ==
    IF variant = 1
    THEN Call("paymentIntents.create", Undef, Undef,
              Num(ParseInt(Field("amount")).n),
              Str(ToLowerCase(Field("currency").s)), cus)
    ELSE Call("paymentIntents.create", Undef, Undef, Field("amount"),
              Field("currency"), cus)

\* Validation, then the first processor call goes out.
CreatePaymentIntent ==
    /\ pc = "cpi"
    /\ CASE Validate.kind = "reject" ->
                /\ Respond(Validate.resp, "validation")
                /\ UNCHANGED <<err, calls>>
         [] Validate.kind = "throw" ->
                /\ Caught(Validate.err)
                /\ UNCHANGED calls
         [] OTHER ->
                /\ calls' = Append(calls, customersCreate)
                /\ pc' = "await-customer"
                /\ UNCHANGED <<err, via, resp>>
    /\ UNCHANGED <<config, req, parser, body, handler, verified, branch, customer,
                   prev>>

\* A handler that swallows the failure of customers.create and goes on.
Proceeds_always(ok) == TRUE

\* Whether the handler goes on to the payment intent after customers.create.
Proceeds(ok) == ok

\* customers.create settles: on success the second call goes out.
CustomerCreated ==
    /\ pc = "await-customer"
    /\ \E ok \in BOOLEAN, id \in CustomerIds, e \in StripeErrors :
          /\ ok => e = CHOOSE x \in StripeErrors : TRUE
          /\ ~ok => id = CHOOSE x \in CustomerIds : TRUE
          /\ IF Proceeds(ok)
             THEN /\ customer' = IF ok THEN id ELSE "-"
                  /\ calls' = Append(calls, paymentIntentsCreate(IF ok THEN id ELSE "-"))
                  /\ pc' = "await-intent"
                  /\ UNCHANGED <<err, via, resp>>
             ELSE /\ Caught(e)
                  /\ UNCHANGED <<customer, calls>>
    /\ UNCHANGED <<config, req, parser, body, handler, verified, branch, prev>>

\* The body of the 200 response, from the payment intent the processor
\* returned (which carries the amount and currency it was sent).
SuccessResponse(pi) ==
    IF variant = 1
    THEN [Json(200, "-") EXCEPT !.clientSecret = "pi_secret", !.id = "pi_1",
                                !.amount = pi.amount, !.currency = pi.currency]
    ELSE [Json(200, "-") EXCEPT !.clientSecret = "pi_secret", !.id = "pi_1"]

\* paymentIntents.create settles.
PaymentIntentCreated ==
    /\ pc = "await-intent"
    /\ \E ok \in BOOLEAN, e \in StripeErrors :
          /\ ok => e = CHOOSE x \in StripeErrors : TRUE
          /\ IF ok
             THEN /\ Respond(SuccessResponse(calls[Len(calls)]), "handler")
                  /\ UNCHANGED err
             ELSE Caught(e)
    /\ UNCHANGED <<config, req, parser, body, handler, verified, branch, calls,
                   customer, prev>>

(***************************************************************************)
(* POST /webhook                                                           *)
(***************************************************************************)
\* The signature header is one Stripe made for these bytes with the webhook
\* secret, and the handler holds the bytes.
SignatureOK == body = "buffer" /\ req.sig = "valid"

\* A constructEvent that parses the payload without checking the signature.
ConstructEventOK_unsigned == req.payload.kind = "object"

\* stripe.webhooks.constructEvent checks the signature, then parses the
\* payload; the try block then reads event.type.
ConstructEventOK == SignatureOK /\ req.payload.kind = "object"

\* err.message of what the try block throws.
VerifyFailure ==
    CASE req.sig = "absent" -> "no signature header"
      [] req.sig = "malformed" -> "unable to extract timestamp and signatures"
      [] ~SignatureOK -> "no signatures found matching the expected signature"
      [] OTHER -> req.payload.perr

\* The try block of the handler.  Variant 2 leaves the handler's body out
\* with the note that it is the same code as variant 1's.
WebhookVerify ==
    /\ pc = "webhook"
    /\ IF ConstructEventOK
       THEN /\ verified' = TRUE
            /\ pc' = "dispatch"
            /\ UNCHANGED <<err, via, resp>>
       ELSE /\ err' = [NoErr EXCEPT !.message = VerifyFailure]
            /\ Respond([Json(400, "Webhook Error") EXCEPT !.message = VerifyFailure],
                       "verify")
            /\ UNCHANGED verified
    /\ UNCHANGED <<config, req, parser, body, handler, branch, calls, customer,
                   prev>>

\* switch (event.type)
BranchOf(type) ==
    CASE type = "payment_intent.succeeded" -> "succeeded"
      [] type = "payment_intent.payment_failed" -> "payment_failed"
      [] type = "payment_intent.created" -> "created"
      [] OTHER -> "default"

\* The three named branches read a property of event.data.object; that
\* throws a TypeError when the event has no data or no data.object.
BranchThrows(b, data) == b # "default" /\ data # "object"

\* The switch and the acknowledgment.  The handler is an async function:
\* what it throws after the try block rejects its promise.  Express 4 does
\* not look at that promise and the request gets no response; Express 5
\* passes the rejection to the error handler.  Variant 1 runs on Express 4
\* only (its app.use('*') is no valid Express 5 path).
WebhookDispatch ==
    /\ pc = "dispatch"
    /\ branch' = BranchOf(req.payload.type)
    /\ IF BranchThrows(BranchOf(req.payload.type), req.payload.data)
       THEN /\ err' = TypeError
            /\ \E forwarded \in IF variant = 1 THEN {FALSE} ELSE BOOLEAN :
                  IF forwarded
                  THEN pc' = "errhandler" /\ UNCHANGED <<via, resp>>
                  ELSE Respond(NoResp, "rejected")
       ELSE /\ Respond(Json(200, "-"), "handler")
            /\ UNCHANGED err
    /\ UNCHANGED <<config, req, parser, body, handler, verified, calls, customer,
                   prev>>

(***************************************************************************)
(* The global error handler                                                *)
(***************************************************************************)
ErrorBody(e) ==
    IF variant = 1
    THEN [Json(500, "Error interno del servidor") EXCEPT !.message = e.message]
    ELSE [Json(500, "Error interno del servidor") EXCEPT
              !.details = IF nodeEnv = "development" THEN e.message ELSE "null"]

ErrorHandler ==
    /\ pc = "errhandler"
    /\ Respond(ErrorBody(err), "global")
    /\ UNCHANGED <<config, req, parser, body, handler, verified, branch, calls,
                   customer, err, prev>>

\* The exchange is over; a failed one is kept for comparison with the next.
Complete ==
    /\ pc = "done"
    /\ prev' = IF via \in {"catch", "global"}
               THEN [via |-> via, err |-> err, resp |-> resp]
               ELSE prev
    /\ pc' = "idle"
    /\ req' = NoReq
    /\ parser' = "none"
    /\ body' = "undefined"
    /\ handler' = "none"
    /\ verified' = FALSE
    /\ branch' = "none"
    /\ calls' = <<>>
    /\ customer' = "-"
    /\ err' = NoErr
    /\ via' = "none"
    /\ resp' = NoResp
    /\ UNCHANGED config

Next ==
    \/ Receive
    \/ Cors
    \/ Logger
    \/ BodyParse
    \/ Route
    \/ Root
    \/ StripeKey
    \/ Health
    \/ NotFound
    \/ CreatePaymentIntent
    \/ CustomerCreated
    \/ PaymentIntentCreated
    \/ WebhookVerify
    \/ WebhookDispatch
    \/ ErrorHandler
    \/ Complete

Spec == Init /\ [][Next]_vars

(***************************************************************************)
(* Properties                                                              *)
(***************************************************************************)
RouteHandlers == {"root", "stripe-key", "health", "cpi", "webhook"}

Range(s) == {s[i] : i \in 1..Len(s)}

\* C1: a POST /webhook request whose signature check fails is answered 400
\* with the failure reason, and no branch of the event switch is entered
\* for it.
C1_UnverifiedNeverDispatched ==
    /\ branch # "none" => SignatureOK
    /\ pc = "dispatch" => SignatureOK
    /\ (handler = "webhook" /\ pc = "done" /\ ~SignatureOK) =>
            /\ resp.status = 400
            /\ resp.error = "Webhook Error"
            /\ resp.message = VerifyFailure
            /\ branch = "none"

C1_Witness ==
    /\ handler = "webhook" /\ pc = "done"
    /\ req.sig = "mismatch" /\ body = "buffer"
    /\ req.payload.type = "payment_intent.succeeded"
    /\ resp.status = 400

\* C2: a POST /webhook request whose signature check succeeds ends with a
\* 200 acknowledgment, whatever the event type and the nested payload.
C2_VerifiedAlwaysAcknowledged ==
    (handler = "webhook" /\ verified /\ pc = "done") => resp.status = 200

\* The fields of the payment request that the body does not carry.
AbsentFields == {f \in Range(required) : Field(f).t = "undef"}

\* C3: a payment request with a required field missing is answered 400, the
\* message lists exactly the missing fields, and no processor call is made.
C3_MissingFieldsListedExactly ==
    (handler = "cpi" /\ pc = "done" /\ AbsentFields # {}) =>
        /\ resp.status = 400
        /\ Range(resp.missing) = AbsentFields
        /\ calls = <<>>

RECURSIVE TrimEnd(_)
TrimEnd(s) ==
    IF s # <<>> /\ IsSpace(s[Len(s)]) THEN TrimEnd(SubSeq(s, 1, Len(s) - 1)) ELSE s

\* The value as a whole denotes an integer: an optional sign and digits only.
DenotesInteger(v) ==
    \/ v.t = "num"
    \/ /\ v.t = "str"
       /\ LET w == TrimEnd(TrimStart(v.s))
              ds == IF w # <<>> /\ Head(w) \in {"-", "+"} THEN Tail(w) ELSE w
          IN  ds # <<>> /\ \A i \in 1..Len(ds) : ds[i] \in Digits

BadAmount(v) == ~DenotesInteger(v) \/ ParseInt(v).n <= 0

\* C4: a payment request whose amount is non-numeric or <= 0 is answered
\* 400, and neither a customer nor a payment intent is created.
C4_BadAmountRejected ==
    (handler = "cpi" /\ BadAmount(Field("amount"))) =>
        /\ calls = <<>>
        /\ pc = "done" => resp.status = 400

\* C5: the 200 response to a payment request carries a non-empty
\* clientSecret and an id, and its amount and currency are those of the
\* request body.
C5_SuccessEchoesInput ==
    (handler = "cpi" /\ pc = "done" /\ resp.status = 200) =>
        /\ resp.clientSecret \notin {"-", ""}
        /\ resp.id \notin {"-", ""}
        /\ resp.amount = Field("amount")
        /\ resp.currency = Field("currency")

\* The failure category of an exception, as the catch block sorts it.
Category(e) ==
    IF e.type \in ErrorTypes \ {"StripeRateLimitError"} THEN e.type ELSE "fallback"

Surface(r) == <<r.status, r.error, r.message, r.code>>

\* C6: a failed processor call always yields an error response, and two
\* failures of different categories yield different status-and-message.
C6_CategoriesDistinct ==
    (via = "catch" /\ pc = "done" /\ calls # <<>>) =>
        /\ resp.status >= 400
        /\ (prev.via = "catch" /\ Category(prev.err) # Category(err)) =>
                Surface(prev.resp) # Surface(resp)

\* C7: a request without Origin passes the origin gate; a request whose
\* Origin is not in the allow-list reaches no route handler, so no
\* processor call and no webhook event handling happens for it.
C7_DisallowedOriginBlocked ==
    /\ (req.origin = "" /\ pc # "idle") => ~(via = "global" /\ parser = "none")
    /\ (req.origin # "" /\ req.origin \notin allowedOrigins) =>
            /\ handler \notin RouteHandlers
            /\ calls = <<>>
            /\ branch = "none"

\* C8: the global error handler answers 500 and, outside development, with
\* the same error detail whatever the exception was.
C8_ErrorDetailIndependent ==
    (via = "global" /\ pc = "done") =>
        /\ resp.status = 500
        /\ (nodeEnv # "development" /\ prev.via = "global") =>
                /\ resp.message = prev.resp.message
                /\ resp.details = prev.resp.details

\* C9: a request that reaches a route handler got the raw body parser if and
\* only if that handler is the webhook's; every other route got express.json.
C9_RawIffWebhook ==
    handler \in RouteHandlers =>
        /\ (handler = "webhook") <=> (parser = "raw")
        /\ (handler # "webhook") => parser = "json"

\* C10: within one payment request the processor calls are sequential and
\* one-shot: none unless validation passed, customers.create first and once,
\* paymentIntents.create only after customers.create returned an id, with
\* that id, and once.
C10_SequentialOneShot ==
    /\ Len(calls) <= 2
    /\ calls # <<>> => (handler = "cpi" /\ Validate.kind = "pass")
    /\ via = "validation" => calls = <<>>
    /\ Len(calls) >= 1 => calls[1].op = "customers.create"
    /\ Len(calls) = 2 =>
            /\ calls[2].op = "paymentIntents.create"
            /\ customer \in CustomerIds
            /\ calls[2].customer = customer
    /\ customer = "-" => Len(calls) <= 1

C10_Witness ==
    /\ pc = "done" /\ resp.status = 200
    /\ Len(calls) = 2 /\ calls[2].customer = "cus_B"

====
